---- MODULE Spec2Model ----
(***************************************************************************)
(* Geometry ownership / lifecycle and Layer / FeatureIterator protocol of  *)
(* rust-gdal (src/vector/geometry.rs, src/vector/layer.rs).                *)
(*                                                                         *)
(* A Geometry wrapper is the pair (c_geometry_ref, owned).  Native objects *)
(* (geometries, features, the layer cursor) live in the engine; the model  *)
(* keeps, per native geometry handle, how often the native destroy         *)
(* operation hit it and which handles are its child parts.                 *)
(*                                                                         *)
(* A failed assert!/unwrap is a panic: the handler stops, the values it    *)
(* holds are dropped (unwinding), and `last` records the outcome.          *)
(***************************************************************************)
EXTENDS Naturals, Integers, Sequences, FiniteSets, TLC

\* ---------------------------------------------------------------- bounds
MaxGeoms == 3          \* Geometry wrappers constructed in one run
MaxHandles == 3        \* native geometries created for wrappers in one run
MaxFeats == 2          \* native features created in one run
MaxInitFeatures == 2   \* features in the layer when the Dataset is opened
MaxIters == 2          \* FeatureIterator values alive at once
MaxIndex == 1          \* largest sub-geometry index passed to _get_geometry
MaxCount == 2          \* largest point count the engine reports to a reader
MaxReadGeoms == 2      \* Geometry wrappers constructed in a run that reads them

\* ------------------------------------------------------------- constants
None == -1             \* Option::None in c_geometry_ref
NULL == 0              \* std::ptr::null()
OGRERR_NONE == 0
\* the codes a native call returns: ok, or a failure (OGRERR_FAILURE)
NativeCodes == {OGRERR_NONE, 6}

GeomIds == 1..MaxGeoms
FeatIds == 1..MaxFeats
IterIds == 1..MaxIters
\* Handles 1..MaxHandles are created for wrappers (OGR_G_CreateGeometry,
\* OGR_G_CreateFromWkt, OGR_G_ConvexHull); handle MaxHandles+f is the
\* geometry that the native feature f read from the layer owns.
Handles == 0..(MaxHandles + MaxFeats)
FeatGeomHandle(f) == MaxHandles + f

VARIABLES
    geoms,      \* wrapper id -> [st, ref, owned]   (struct Geometry)
    nHandles,   \* native geometries the engine has made on request so far
                \* (the rings of a parsed polygon included)
    destroyed,  \* handle -> number of OGR_G_DestroyGeometry hits
    children,   \* handle -> sequence of child-part handles
    feats,      \* native feature id -> [origin, geom, wrap, lazy, released]
    layer,      \* the native layer: sequence of stored features (the handle
                \* of the geometry each was created with, NULL if read from
                \* the dataset)
    cursor,     \* the native layer's read position
    iters,      \* FeatureIterator id -> [live, base, got, none, foreign, steady]
    last,       \* the last call and its outcome
    out,        \* what the last call read: [calls, val], calls being the
                \* native calls it made through a geometry handle or on an
                \* exported buffer, val the value it returned
    heap,       \* the exported text buffers the engine has allocated and
                \* nobody has freed
    filter,     \* the layer's spatial filter: [geom, skip], the geometry
                \* handle it was set with (NULL for none) and the layer
                \* positions whose features it leaves out
    shape       \* handle -> the content of that native geometry, where the
                \* model follows it

vars == <<geoms, nHandles, destroyed, children, feats, layer, cursor, iters, last,
          out, heap, filter, shape>>

\* ------------------------------------------------- struct Geometry (pure)
\* A handler's outcome `res` is "ok", or the assertion / unwrap that failed.
Geometry(ref, owned) == [ref |-> ref, owned |-> owned]

\* a faulty lazy_feature_geometry, with the flag its comment speaks of
lazy_feature_geometry_owned == Geometry(None, TRUE)

\* Geometry{c_geometry_ref: None, owned: false}
lazy_feature_geometry == Geometry(None, FALSE)

has_gdal_ptr(self) == self.ref # None

\* a faulty set_c_geometry, without its two assertions
set_c_geometry_rebinds(self, c_geometry) ==
    [res |-> "ok", self |-> [self EXCEPT !.ref = c_geometry]]

\* a faulty set_c_geometry, which makes the Geometry the owner of the handle
set_c_geometry_owns(self, c_geometry) ==
    IF has_gdal_ptr(self) THEN [res |-> "assert_unbound", self |-> self]
    ELSE [res |-> "ok", self |-> Geometry(c_geometry, TRUE)]

\* assert!(!has_gdal_ptr); assert_eq!(owned, false); store Some(c_geometry)
set_c_geometry(self, c_geometry) ==
    IF has_gdal_ptr(self) THEN [res |-> "assert_unbound", self |-> self]
    ELSE IF self.owned # FALSE THEN [res |-> "assert_not_owned", self |-> self]
    ELSE [res |-> "ok", self |-> [self EXCEPT !.ref = c_geometry]]

with_c_geometry(c_geom, owned) == Geometry(c_geom, owned)

\* a faulty c_geometry, which hands out whatever is stored
c_geometry_unchecked(self) == FALSE

\* c_geometry(): Option::unwrap panics on None
c_geometry_panics(self) == self.ref = None

c_geometry(self) == self.ref

\* a faulty into_c_geometry, without the assertion on the flag
into_c_geometry_no_owned_check(self) ==
    LET s == [self EXCEPT !.owned = FALSE]
    IN  [res |-> IF c_geometry_panics(s) THEN "unwrap_none" ELSE "ok",
         self |-> s, ret |-> c_geometry(s)]

\* a faulty into_c_geometry, which returns the handle and stays its owner
into_c_geometry_keeps_flag(self) ==
    IF ~self.owned THEN [res |-> "assert_owned", self |-> self, ret |-> None]
    ELSE [res |-> IF c_geometry_panics(self) THEN "unwrap_none" ELSE "ok",
          self |-> self, ret |-> c_geometry(self)]

\* into_c_geometry(mut self): assert!(owned); owned = false; return handle
into_c_geometry(self) ==
    IF ~self.owned THEN [res |-> "assert_owned", self |-> self, ret |-> None]
    ELSE LET s == [self EXCEPT !.owned = FALSE]
         IN  [res |-> IF c_geometry_panics(s) THEN "unwrap_none" ELSE "ok",
              self |-> s, ret |-> c_geometry(s)]

\* a faulty drop, which releases whatever is bound
drop_ignores_flag(self) ==
    IF self.ref = None THEN [res |-> "ok", destroy |-> <<>>]
    ELSE [res |-> "ok", destroy |-> <<self.ref>>]

\* impl Drop: if owned, OGR_G_DestroyGeometry(c_geometry_ref.unwrap());
\* destroy lists the handles passed to it (at most one)
drop(self) ==
    IF self.owned
    THEN IF self.ref = None THEN [res |-> "unwrap_none", destroy |-> <<>>]
         ELSE [res |-> "ok", destroy |-> <<self.ref>>]
    ELSE [res |-> "ok", destroy |-> <<>>]

\* a faulty add_geometry, without the assertion on the donor's flag
add_geometry_no_owned_check(self, sub, rv) ==
    LET s == [sub EXCEPT !.owned = FALSE]
    IN  IF c_geometry_panics(self) \/ c_geometry_panics(s)
        THEN [res |-> "unwrap_none", sub |-> s, codes |-> <<>>]
        ELSE [res |-> IF rv # OGRERR_NONE THEN "assert_rv" ELSE "ok",
              sub |-> s, codes |-> <<rv>>]

\* a faulty add_geometry, which leaves the donor's flag true
add_geometry_keeps_flag(self, sub, rv) ==
    IF ~sub.owned THEN [res |-> "assert_owned", sub |-> sub, codes |-> <<>>]
    ELSE IF c_geometry_panics(self) \/ c_geometry_panics(sub)
         THEN [res |-> "unwrap_none", sub |-> sub, codes |-> <<>>]
         ELSE [res |-> IF rv # OGRERR_NONE THEN "assert_rv" ELSE "ok",
               sub |-> sub, codes |-> <<rv>>]

\* add_geometry(&mut self, mut sub), rv being the code the native add
\* returns if it is reached: assert!(sub.owned); sub.owned = false;
\* OGR_G_AddGeometryDirectly; assert_eq!(rv, OGRERR_NONE)
\*   sub    the donor as it is when the handler ends and drops it
\*   codes  the codes the native add returned (none if it was not invoked)
add_geometry(self, sub, rv) ==
    IF ~sub.owned THEN [res |-> "assert_owned", sub |-> sub, codes |-> <<>>]
    ELSE LET s == [sub EXCEPT !.owned = FALSE]
         IN  IF c_geometry_panics(self) \/ c_geometry_panics(s)
             THEN [res |-> "unwrap_none", sub |-> s, codes |-> <<>>]
             ELSE [res |-> IF rv # OGRERR_NONE THEN "assert_rv" ELSE "ok",
                   sub |-> s, codes |-> <<rv>>]

\* Layer::features() -> FeatureIterator::_with_layer: stores the borrow of
\* the layer and leaves the native cursor c where it is
features_cursor(c) == c

\* a faulty next, with the two arms exchanged
next_result_swapped(c_feature) == IF c_feature = NULL THEN "some" ELSE "none"

\* FeatureIterator::next: match c_feature.is_null()
next_result(c_feature) == IF c_feature = NULL THEN "none" ELSE "some"

\* a faulty create_feature, without the assertion on the attach
create_feature_ignores_attach(rv_set, rv_create) ==
    [res |-> IF rv_create # OGRERR_NONE THEN "assert_create" ELSE "ok",
     codes |-> <<rv_set, rv_create>>]

\* create_feature once into_c_geometry returned: rv_set is the code of the
\* attach (OGR_F_SetGeometryDirectly), rv_create that of the persist
\* (OGR_L_CreateFeature) if it is reached; codes are the codes returned
create_feature_steps(rv_set, rv_create) ==
    IF rv_set # OGRERR_NONE THEN [res |-> "assert_set", codes |-> <<rv_set>>]
    ELSE [res |-> IF rv_create # OGRERR_NONE THEN "assert_create" ELSE "ok",
          codes |-> <<rv_set, rv_create>>]

\* ---------------------------------------------- reading a Geometry (pure)
\* A native call made through a geometry handle or on an exported buffer
NativeCall(fn, arg) == [fn |-> fn, arg |-> arg]
\* the x, y, z a reader starts from (0., 0., 0.)
Origin == <<0, 0, 0>>

\* a faulty json, which never frees the buffer
json_skips_free(self, c_json, segv) ==
    IF c_geometry_panics(self) THEN [res |-> "unwrap_none", calls |-> <<>>, val |-> <<>>]
    ELSE [res |-> "ok",
          calls |-> <<NativeCall("OGR_G_ExportToJson", <<c_geometry(self)>>),
                      NativeCall("_string", <<c_json>>)>>,
          val |-> <<"json", c_json>>]

\* json(&self), c_json being what OGR_G_ExportToJson returns (a buffer or
\* null): _string(c_json) copies the text, VSIFree(c_json) frees the
\* buffer.  _string on a null pointer is undefined: the process dies
\* (segv) or goes on with some text.
json(self, c_json, segv) ==
    IF c_geometry_panics(self) THEN [res |-> "unwrap_none", calls |-> <<>>, val |-> <<>>]
    ELSE LET export == NativeCall("OGR_G_ExportToJson", <<c_geometry(self)>>)
         IN  IF c_json = NULL /\ segv
             THEN [res |-> "segv", calls |-> <<export>>, val |-> <<>>]
             ELSE [res |-> "ok",
                   calls |-> <<export, NativeCall("_string", <<c_json>>),
                               NativeCall("VSIFree", <<c_json>>)>>,
                   val |-> <<"json", c_json>>]

\* wkt(&self), _err and c_wkt being what OGR_G_ExportToWkt returns:
\* assert_eq!(_err, OGRERR_NONE); _string(c_wkt); OGRFree(c_wkt)
wkt(self, err, c_wkt) ==
    IF c_geometry_panics(self) THEN [res |-> "unwrap_none", calls |-> <<>>, val |-> <<>>]
    ELSE LET export == NativeCall("OGR_G_ExportToWkt", <<c_geometry(self)>>)
         IN  IF err # OGRERR_NONE
             THEN [res |-> "assert_err", calls |-> <<export>>, val |-> <<>>]
             ELSE [res |-> "ok",
                   calls |-> <<export, NativeCall("_string", <<c_wkt>>),
                               NativeCall("OGRFree", <<c_wkt>>)>>,
                   val |-> <<"wkt", c_wkt>>]

\* set_point_2d(&mut self, i, (x, y))
set_point_2d(self, i, p) ==
    IF c_geometry_panics(self) THEN [res |-> "unwrap_none", calls |-> <<>>, val |-> <<>>]
    ELSE [res |-> "ok",
          calls |-> <<NativeCall("OGR_G_SetPoint_2D", <<c_geometry(self), i, p[1], p[2]>>)>>,
          val |-> <<>>]

\* get_point(&self, i): x, y, z start as 0. and OGR_G_GetPoint writes the
\* point into them; native is what it wrote, <<>> if it wrote nothing
get_point(self, i, native) ==
    IF c_geometry_panics(self) THEN [res |-> "unwrap_none", calls |-> <<>>, val |-> <<>>]
    ELSE [res |-> "ok",
          calls |-> <<NativeCall("OGR_G_GetPoint", <<c_geometry(self), i>>)>>,
          val |-> IF native = <<>> THEN Origin ELSE native]

\* a faulty get_point_vec, which reads the indices 1..length
get_point_vec_from_one(self, count, natives) ==
    IF c_geometry_panics(self) THEN [res |-> "unwrap_none", calls |-> <<>>, val |-> <<>>]
    ELSE LET point(k) == get_point(self, k, IF k < count THEN natives[k + 1] ELSE <<>>)
         IN  [res |-> "ok",
              calls |-> <<NativeCall("OGR_G_GetPointCount", <<c_geometry(self)>>)>>
                        \o [k \in 1..count |-> point(k).calls[1]],
              val |-> [k \in 1..count |-> point(k).val]]

\* get_point_vec(&self): length = OGR_G_GetPointCount, then get_point(i)
\* for i in 0..length, collected; natives[k] is what OGR_G_GetPoint writes
\* for index k - 1
get_point_vec(self, count, natives) ==
    IF c_geometry_panics(self) THEN [res |-> "unwrap_none", calls |-> <<>>, val |-> <<>>]
    ELSE LET point(k) == get_point(self, k - 1, natives[k])
         IN  [res |-> "ok",
              calls |-> <<NativeCall("OGR_G_GetPointCount", <<c_geometry(self)>>)>>
                        \o [k \in 1..count |-> point(k).calls[1]],
              val |-> [k \in 1..count |-> point(k).val]]

\* Layer::set_spatial_filter(&self, geometry)
set_spatial_filter(geometry) ==
    IF c_geometry_panics(geometry) THEN [res |-> "unwrap_none", calls |-> <<>>, val |-> <<>>]
    ELSE [res |-> "ok",
          calls |-> <<NativeCall("OGR_L_SetSpatialFilter", <<c_geometry(geometry)>>)>>,
          val |-> <<>>]

\* ------------------------------------------------- bbox and its text
\* An f64 is [fin, t]: a finite value of t tenths, or an infinity.  A text
\* is a sequence of characters.
Finite(t) == [fin |-> TRUE, t |-> t]
Infinity == [fin |-> FALSE, t |-> 1]
Zero == Finite(0)
DigitChars == <<"0", "1", "2", "3", "4", "5", "6", "7", "8", "9">>

RECURSIVE Digits(_)
Digits(n) ==
    IF n < 10 THEN <<DigitChars[n + 1]>>
    ELSE Digits(n \div 10) \o <<DigitChars[(n % 10) + 1]>>

\* format!("{}", v) of an f64: the shortest decimal text, "inf" for infinity
Display(v) ==
    IF ~v.fin THEN <<"i", "n", "f">>
    ELSE LET a == IF v.t < 0 THEN 0 - v.t ELSE v.t
         IN  (IF v.t < 0 THEN <<"-">> ELSE <<>>)
             \o Digits(a \div 10)
             \o (IF a % 10 = 0 THEN <<>> ELSE <<".", DigitChars[(a % 10) + 1]>>)

\* a faulty bbox, whose ring starts at the south-west corner
bbox_wkt_from_south(w, s, e, n) ==
    LET pair(x, y) == Display(x) \o <<" ">> \o Display(y)
        sep == <<",", " ">>
    IN  <<"P", "O", "L", "Y", "G", "O", "N", " ", "(", "(">>
        \o pair(w, s) \o sep \o pair(e, s) \o sep \o pair(e, n) \o sep
        \o pair(w, n) \o sep \o pair(w, s) \o <<")", ")">>

\* format!("POLYGON (({} {}, {} {}, {} {}, {} {}, {} {}))", w, n, e, n, e, s, w, s, w, n)
bbox_wkt(w, s, e, n) ==
    LET pair(x, y) == Display(x) \o <<" ">> \o Display(y)
        sep == <<",", " ">>
    IN  <<"P", "O", "L", "Y", "G", "O", "N", " ", "(", "(">>
        \o pair(w, n) \o sep \o pair(e, n) \o sep \o pair(e, s) \o sep
        \o pair(w, s) \o sep \o pair(w, n) \o <<")", ")">>

\* --------------------------------------------- native engine: WKT reader
\* OGRWktReadToken: blanks are skipped; "(", ")" and "," stand alone; any
\* other run of characters up to a blank or one of those is one token
Delimiters == {"(", ")", ","}
RECURSIVE Tokens(_, _)
Tokens(text, word) ==
    LET flush == IF word = <<>> THEN <<>> ELSE <<word>>
    IN  IF text = <<>> THEN flush
        ELSE IF Head(text) = " " THEN flush \o Tokens(Tail(text), <<>>)
        ELSE IF Head(text) \in Delimiters
             THEN flush \o <<<<Head(text)>>>> \o Tokens(Tail(text), <<>>)
        ELSE Tokens(Tail(text), Append(word, Head(text)))

DigitValue(c) == CHOOSE d \in 0..9 : DigitChars[d + 1] = c
IsDigit(c) == \E d \in 0..9 : DigitChars[d + 1] = c
RECURSIVE Whole(_)
Whole(ds) == IF ds = <<>> THEN 0 ELSE Whole(SubSeq(ds, 1, Len(ds) - 1)) * 10 + DigitValue(ds[Len(ds)])

\* The number a coordinate token stands for, <<>> if the reader rejects
\* it.  A decimal number (digits with an optional sign and point; the model
\* reads at most one digit after the point) is read as its value.  Whether
\* the reader takes the word "inf" for a number is not fixed by its
\* interface: words says whether this engine does.
Number(tok, words) ==
    LET neg == tok # <<>> /\ tok[1] = "-"
        body == IF neg THEN Tail(tok) ELSE tok
        dots == {k \in 1..Len(body) : body[k] = "."}
        dot == IF dots = {} THEN Len(body) + 1 ELSE CHOOSE k \in dots : TRUE
        int == SubSeq(body, 1, dot - 1)
        frac == SubSeq(body, dot + 1, Len(body))
        wellFormed == /\ tok # <<>>
                      /\ IsDigit(tok[1]) \/ tok[1] \in {"-", "."}
                      /\ body # <<>>
                      /\ Cardinality(dots) <= 1
                      /\ Len(frac) <= 1
                      /\ \A k \in 1..Len(body) : k \in dots \/ IsDigit(body[k])
        tenths == Whole(int) * 10 + Whole(frac)
    IN  IF tok = <<"i", "n", "f">> THEN (IF words THEN <<Infinity>> ELSE <<>>)
        ELSE IF wellFormed THEN <<Finite(IF neg THEN 0 - tenths ELSE tenths)>>
        ELSE <<>>

\* OGRWktReadPoints: "x y" pairs separated by "," up to ")", read from
\* token i on; z is 0 for a text without z
RECURSIVE ReadPoints(_, _, _, _)
ReadPoints(toks, i, pts, words) ==
    IF i + 2 > Len(toks) THEN [ok |-> FALSE, pts |-> pts, next |-> i]
    ELSE LET x == Number(toks[i], words)
             y == Number(toks[i + 1], words)
         IN  IF x = <<>> \/ y = <<>> THEN [ok |-> FALSE, pts |-> pts, next |-> i]
             ELSE LET more == Append(pts, <<x[1], y[1], Zero>>)
                  IN  IF toks[i + 2] = <<",">> THEN ReadPoints(toks, i + 3, more, words)
                      ELSE IF toks[i + 2] = <<")">>
                           THEN [ok |-> TRUE, pts |-> more, next |-> i + 3]
                      ELSE [ok |-> FALSE, pts |-> more, next |-> i]

\* The content of a native geometry: its kind, its own points, and the
\* point lists of its rings
Content(kind, pts, parts) == [kind |-> kind, pts |-> pts, parts |-> parts]

\* OGR_G_CreateFromWkt for the texts of a line string and of a polygon
\* with one ring: the return code and the geometry made
OGR_G_CreateFromWkt(text, words) ==
    LET toks == Tokens(text, <<>>)
        corrupt == [rv |-> 5, geom |-> Content("none", <<>>, <<>>)]
    IN  IF Len(toks) < 2 \/ toks[2] # <<"(">> THEN corrupt
        ELSE IF toks[1] = <<"L", "I", "N", "E", "S", "T", "R", "I", "N", "G">>
        THEN LET r == ReadPoints(toks, 3, <<>>, words)
             IN  IF r.ok /\ r.next = Len(toks) + 1
                 THEN [rv |-> OGRERR_NONE, geom |-> Content("LineString", r.pts, <<>>)]
                 ELSE corrupt
        ELSE IF toks[1] = <<"P", "O", "L", "Y", "G", "O", "N">> /\ Len(toks) >= 3
                /\ toks[3] = <<"(">>
        THEN LET r == ReadPoints(toks, 4, <<>>, words)
             IN  IF r.ok /\ r.next = Len(toks) /\ toks[r.next] = <<")">>
                 THEN [rv |-> OGRERR_NONE, geom |-> Content("Polygon", <<>>, <<r.pts>>)]
                 ELSE corrupt
        ELSE corrupt

\* OGR_G_GetPointCount: 1 for a point, the number of points of a line
\* string or ring and, for a polygon, of its exterior ring (geom.pts of a
\* polygon are the points of that ring); 0 for every other kind and for
\* null
OGR_G_GetPointCount(geom) ==
    IF geom.kind = "Point" THEN 1
    ELSE IF geom.kind \in {"LineString", "LinearRing", "Polygon"} THEN Len(geom.pts)
    ELSE 0

\* OGR_G_GetPoint: the point it writes for index i, <<>> if it writes none
OGR_G_GetPoint(geom, i) ==
    IF geom.kind \in {"Point", "LineString", "LinearRing", "Polygon"} /\ i < Len(geom.pts)
    THEN geom.pts[i + 1] ELSE <<>>

\* OGR_G_SetPoint_2D: sets point i of a line string or ring, which grows
\* to i + 1 points if it is shorter; other kinds are left alone
OGR_G_SetPoint_2D(geom, i, x, y) ==
    IF geom.kind \in {"LineString", "LinearRing"}
    THEN [geom EXCEPT !.pts =
             [k \in 1..(IF i + 1 > Len(@) THEN i + 1 ELSE Len(@)) |->
                 IF k = i + 1 THEN <<x, y, Zero>>
                 ELSE IF k <= Len(@) THEN @[k] ELSE <<Zero, Zero, Zero>>]]
    ELSE geom

\* ------------------------------------------------------ native engine
\* How often destroying handle h hits handle x: h itself and, through the
\* child parts, everything below it (the engine deletes a geometry with its
\* parts).  fuel bounds the descent.
RECURSIVE Hits(_, _, _, _)
Hits(ch, h, x, fuel) ==
    IF h = NULL THEN IF x = NULL THEN 1 ELSE 0
    ELSE (IF h = x THEN 1 ELSE 0)
         + (IF fuel = 0 THEN 0
            ELSE LET RECURSIVE Sum(_)
                     Sum(i) == IF i = 0 THEN 0
                               ELSE Hits(ch, ch[h][i], x, fuel - 1) + Sum(i - 1)
                 IN  Sum(Len(ch[h])))

\* OGR_G_DestroyGeometry / OGR_F_Destroy's release of the feature geometry,
\* applied to each handle of the sequence hs in turn
RECURSIVE OGR_G_DestroyGeometry(_, _, _)
OGR_G_DestroyGeometry(d, ch, hs) ==
    IF hs = <<>> THEN d
    ELSE OGR_G_DestroyGeometry(
            [x \in Handles |-> d[x] + Hits(ch, Head(hs), x, MaxHandles + MaxFeats)],
            ch, Tail(hs))

\* OGR_G_GetGeometryRef: the n-th child part, NULL when out of range
OGR_G_GetGeometryRef(ch, h, n) ==
    IF h # NULL /\ n < Len(ch[h]) THEN ch[h][n + 1] ELSE NULL

\* OGR_G_AddGeometryDirectly with return code rv: on success the parent
\* takes the part
OGR_G_AddGeometryDirectly(ch, parent, part, rv) ==
    IF rv = OGRERR_NONE THEN [ch EXCEPT ![parent] = Append(@, part)] ELSE ch

\* ---------------------------------------------------------------- state
Rec(g) == Geometry(geoms[g].ref, geoms[g].owned)
Live(w) == [st |-> "live", ref |-> w.ref, owned |-> w.owned]
\* a destroyed Geometry: its fields are gone with it
Gone == [st |-> "dropped", ref |-> None, owned |-> FALSE]
FreeGeom == [st |-> "free", ref |-> None, owned |-> FALSE]
FreeFeat == [origin |-> "free", geom |-> NULL, wrap |-> "none",
             lazy |-> lazy_feature_geometry, released |-> 0]
IdleIter == [live |-> FALSE, base |-> 0, got |-> <<>>, none |-> FALSE, foreign |-> 0,
             steady |-> TRUE]
\* no spatial filter on the layer
NoFilter == [geom |-> NULL, skip |-> {}]

nGeoms == Cardinality({g \in GeomIds : geoms[g].st # "free"})
nFeats == Cardinality({f \in FeatIds : feats[f].origin # "free"})
LiveGeoms == {g \in GeomIds : geoms[g].st = "live"}
LiveFeatures == {f \in FeatIds : feats[f].wrap = "live"}
LiveIters == {it \in IterIds : iters[it].live}
\* &mut Layer: no FeatureIterator and no Feature borrows the layer
LayerUnborrowed == LiveIters = {} /\ LiveFeatures = {}

\* The last call: its name, its outcome, its arguments (ids), the codes the
\* native add / attach / persist operations returned during it and, when a
\* Geometry was destroyed during it, that Geometry as it was then (gone) and
\* the handles its drop passed to OGR_G_DestroyGeometry (destroy)
NoGeometry == [ref |-> None, owned |-> FALSE, destroy |-> <<>>]
Destroyed(self, d) == [ref |-> self.ref, owned |-> self.owned, destroy |-> d.destroy]
Call(op, res, a, b, gone, codes) ==
    [op |-> op, res |-> res, a |-> a, b |-> b, gone |-> gone, codes |-> codes]
\* what a call that reads nothing leaves behind
NoOut == [calls |-> <<>>, val |-> <<>>]
\* shape[h]: the kind and the points of native geometry h, the bbox
\* arguments it was made from (src, <<>> if none or set since) and whether
\* it is the geometry made itself or its ring n (path).  A handle whose
\* content is not followed, and null, have NoShape.
Shape(geom, src, path) ==
    [kind |-> geom.kind, pts |-> geom.pts, src |-> src, path |-> path]
NoShape == Shape([kind |-> "none", pts |-> <<>>], <<>>, <<>>)
\* a call that reads no content, exports no text and sets no filter
NoRead == out' = NoOut /\ UNCHANGED <<heap, filter, shape>>

Panicked(res) == res \notin {"ok", "some", "none"}

\* The state after construction: no Geometry value yet, and a Layer that
\* holds n features
InitLayer(n) ==
    /\ geoms = [g \in GeomIds |-> FreeGeom]
    /\ nHandles = 0
    /\ destroyed = [h \in Handles |-> 0]
    /\ children = [h \in Handles |-> <<>>]
    /\ feats = [f \in FeatIds |-> FreeFeat]
    /\ layer = [i \in 1..n |-> NULL]
    /\ cursor = 0
    /\ iters = [it \in IterIds |-> IdleIter]
    /\ last = Call("init", "ok", 0, 0, NoGeometry, <<>>)
    /\ out = NoOut
    /\ heap = {}
    /\ filter = NoFilter
    /\ shape = [h \in Handles |-> NoShape]

\* a newly created, empty layer
InitEmpty == InitLayer(0)

\* a layer of a data set that holds some features already
Init == \E n \in 0..MaxInitFeatures : InitLayer(n)

\* ------------------------------------------------------ Geometry actions
\* A constructor that got c_geom from the engine; res is its assertion's
\* outcome
Construct(op, c_geom, res) ==
    IF res # "ok"
    THEN /\ last' = Call(op, res, 0, 0, NoGeometry, <<>>)
         /\ NoRead /\ UNCHANGED <<geoms, nHandles, destroyed, children, feats, layer, cursor, iters>>
    ELSE /\ nGeoms < MaxGeoms
         /\ geoms' = [geoms EXCEPT ![nGeoms + 1] = Live(with_c_geometry(c_geom, TRUE))]
         /\ nHandles' = IF c_geom = NULL THEN nHandles ELSE c_geom
         /\ last' = Call(op, "ok", nGeoms + 1, 0, NoGeometry, <<>>)
         /\ NoRead /\ UNCHANGED <<destroyed, children, feats, layer, cursor, iters>>

\* empty(wkb_type): OGR_G_CreateGeometry yields a new geometry, or null for
\* a type it does not know; assert!(c_geom != null())
Empty(known) ==
    /\ known => nHandles < MaxHandles
    /\ LET c_geom == IF known THEN nHandles + 1 ELSE NULL
       IN  Construct("empty", c_geom, IF c_geom # NULL THEN "ok" ELSE "assert_nonnull")

\* from_wkt(wkt): CString::new(..).unwrap() aborts for a text that holds a
\* NUL byte (nul), before the engine is called; else OGR_G_CreateFromWkt
\* returns rv and, on success, a geometry; assert_eq!(rv, OGRERR_NONE)
from_wkt(op, nul, rv) ==
    LET c_geom == IF ~nul /\ rv = OGRERR_NONE THEN nHandles + 1 ELSE NULL
    IN  Construct(op, c_geom, IF nul THEN "unwrap_nul"
                              ELSE IF rv = OGRERR_NONE THEN "ok" ELSE "assert_rv")

FromWkt(nul, rv) ==
    /\ nul => rv = OGRERR_NONE
    /\ (~nul /\ rv = OGRERR_NONE) => nHandles < MaxHandles
    /\ from_wkt("from_wkt", nul, rv)

\* bbox(w, s, e, n): formats the ring, a text without NUL, and delegates
\* to from_wkt
Bbox(rv) ==
    /\ rv = OGRERR_NONE => nHandles < MaxHandles
    /\ from_wkt("bbox", FALSE, rv)

\* lazy_feature_geometry()
LazyFeatureGeometry ==
    /\ nGeoms < MaxGeoms
    /\ geoms' = [geoms EXCEPT ![nGeoms + 1] = Live(lazy_feature_geometry)]
    /\ last' = Call("lazy_feature_geometry", "ok", nGeoms + 1, 0, NoGeometry, <<>>)
    /\ NoRead /\ UNCHANGED <<nHandles, destroyed, children, feats, layer, cursor, iters>>

\* set_c_geometry(&self, c_geometry), c_geometry a geometry of the engine
SetCGeometry(g, c) ==
    /\ geoms[g].st = "live"
    /\ c <= nHandles
    /\ LET r == set_c_geometry(Rec(g), c)
       IN  /\ geoms' = [geoms EXCEPT ![g] = Live(r.self)]
           /\ last' = Call("set_c_geometry", r.res, g, c, NoGeometry, <<>>)
    /\ NoRead /\ UNCHANGED <<nHandles, destroyed, children, feats, layer, cursor, iters>>

\* convex_hull(&self): OGR_G_ConvexHull yields a new geometry, or null when
\* it fails; the result is wrapped as owned either way
ConvexHull(g, hull) ==
    /\ geoms[g].st = "live"
    /\ IF c_geometry_panics(Rec(g))
       THEN /\ last' = Call("convex_hull", "unwrap_none", g, 0, NoGeometry, <<>>)
            /\ NoRead /\ UNCHANGED <<geoms, nHandles, destroyed, children, feats, layer, cursor, iters>>
       ELSE /\ hull => (c_geometry(Rec(g)) # NULL /\ nHandles < MaxHandles)
            /\ nGeoms < MaxGeoms
            /\ LET c_geom == IF hull THEN nHandles + 1 ELSE NULL
               IN  /\ geoms' = [geoms EXCEPT ![nGeoms + 1] = Live(with_c_geometry(c_geom, TRUE))]
                   /\ nHandles' = IF hull THEN c_geom ELSE nHandles
            /\ last' = Call("convex_hull", "ok", g, nGeoms + 1, NoGeometry, <<>>)
            /\ NoRead /\ UNCHANGED <<destroyed, children, feats, layer, cursor, iters>>

\* _get_geometry(&self, n): a non-owned wrapper of the n-th child part
GetGeometry(g, n) ==
    /\ geoms[g].st = "live"
    /\ IF c_geometry_panics(Rec(g))
       THEN /\ last' = Call("_get_geometry", "unwrap_none", g, 0, NoGeometry, <<>>)
            /\ NoRead /\ UNCHANGED <<geoms, nHandles, destroyed, children, feats, layer, cursor, iters>>
       ELSE /\ nGeoms < MaxGeoms
            /\ LET c_geom == OGR_G_GetGeometryRef(children, c_geometry(Rec(g)), n)
               IN  geoms' = [geoms EXCEPT ![nGeoms + 1] = Live(with_c_geometry(c_geom, FALSE))]
            /\ last' = Call("_get_geometry", "ok", g, nGeoms + 1, NoGeometry, <<>>)
            /\ NoRead /\ UNCHANGED <<nHandles, destroyed, children, feats, layer, cursor, iters>>

\* into_c_geometry(self): self is consumed, so it is dropped on return
IntoCGeometry(g) ==
    /\ geoms[g].st = "live"
    /\ LET r == into_c_geometry(Rec(g))
           d == drop(r.self)
       IN  /\ geoms' = [geoms EXCEPT ![g] = Gone]
           /\ destroyed' = OGR_G_DestroyGeometry(destroyed, children, d.destroy)
           /\ last' = Call("into_c_geometry", r.res, g, 0, Destroyed(r.self, d), <<>>)
    /\ NoRead /\ UNCHANGED <<nHandles, children, feats, layer, cursor, iters>>

\* add_geometry(&mut self, sub): p is self, s the donor, rv the code of
\* OGR_G_AddGeometryDirectly; on failure the engine either deleted the part
\* (taken) or left it alone.  sub is dropped when the handler ends.
AddGeometry(p, s, rv, taken) ==
    /\ p # s
    /\ geoms[p].st = "live"
    /\ geoms[s].st = "live"
    /\ LET r == add_geometry(Rec(p), Rec(s), rv)
           ph == c_geometry(Rec(p))
           sh == c_geometry(Rec(s))
           d == drop(r.sub)
           called == r.codes # <<>>
       IN  /\ ~called => rv = OGRERR_NONE
           /\ (called /\ rv = OGRERR_NONE) => (ph # NULL /\ sh # NULL)
           /\ taken => (called /\ rv # OGRERR_NONE /\ sh # NULL)
           /\ children' = IF called
                          THEN OGR_G_AddGeometryDirectly(children, ph, sh, rv)
                          ELSE children
           /\ destroyed' = OGR_G_DestroyGeometry(destroyed, children,
                               (IF taken THEN <<sh>> ELSE <<>>) \o d.destroy)
           /\ geoms' = [geoms EXCEPT ![s] = Gone]
           /\ last' = Call("add_geometry", r.res, p, s, Destroyed(r.sub, d), r.codes)
    /\ NoRead /\ UNCHANGED <<nHandles, feats, layer, cursor, iters>>

\* impl Drop for Geometry
Drop(g) ==
    /\ geoms[g].st = "live"
    /\ LET d == drop(Rec(g))
       IN  /\ destroyed' = OGR_G_DestroyGeometry(destroyed, children, d.destroy)
           /\ last' = Call("drop", d.res, g, 0, Destroyed(Rec(g), d), <<>>)
    /\ geoms' = [geoms EXCEPT ![g] = Gone]
    /\ NoRead /\ UNCHANGED <<nHandles, children, feats, layer, cursor, iters>>

\* ------------------------------------------------ Layer / Feature actions
\* OGR_L_GetNextFeature: a new native feature for the next record the
\* spatial filter lets through, to which the cursor advances; null when
\* there is none up to the end of the layer.  NextPosition is the first
\* position after the cursor whose feature the filter lets through, 0 if
\* there is none.
NextPosition ==
    LET rest == {p \in (cursor + 1)..Len(layer) : p \notin filter.skip}
    IN  IF rest = {} THEN 0 ELSE CHOOSE p \in rest : \A q \in rest : p <= q
OGR_L_GetNextFeature == IF NextPosition # 0 THEN nFeats + 1 ELSE NULL

\* Layer::features()
Features(it) ==
    /\ ~iters[it].live
    /\ cursor' = features_cursor(cursor)
    /\ iters' = [iters EXCEPT ![it] = [live |-> TRUE, base |-> cursor', got |-> <<>>,
                                       none |-> FALSE, foreign |-> 0,
                                       steady |-> filter.skip = {}]]
    /\ last' = Call("features", "ok", it, 0, NoGeometry, <<>>)
    /\ NoRead /\ UNCHANGED <<geoms, nHandles, destroyed, children, feats, layer>>

\* FeatureIterator::next.  got lists the layer positions it yielded, none
\* whether it returned None, foreign how many features other iterators
\* took from the layer since it was obtained, steady whether the layer has
\* had no filter and no filter call since it was obtained.
IterNext(it) ==
    /\ iters[it].live
    /\ LET c_feature == OGR_L_GetNextFeature
           res == next_result(c_feature)
           moved == c_feature # NULL
       IN  /\ moved => nFeats < MaxFeats
           /\ cursor' = IF moved THEN NextPosition ELSE Len(layer)
           /\ feats' = IF moved
                       THEN [feats EXCEPT ![c_feature] =
                               [origin |-> "cursor", geom |-> FeatGeomHandle(c_feature),
                                wrap |-> IF res = "some" THEN "live" ELSE "none",
                                lazy |-> lazy_feature_geometry, released |-> 0]]
                       ELSE feats
           /\ iters' = [i \in IterIds |->
                          IF i = it
                          THEN [iters[i] EXCEPT
                                  !.got = IF res = "some" THEN Append(@, NextPosition) ELSE @,
                                  !.none = @ \/ res = "none"]
                          ELSE IF iters[i].live /\ moved
                               THEN [iters[i] EXCEPT !.foreign = @ + 1]
                               ELSE iters[i]]
           /\ last' = Call("next", res, it, IF res = "some" THEN NextPosition ELSE 0,
                           NoGeometry, <<>>)
    /\ NoRead /\ UNCHANGED <<geoms, nHandles, destroyed, children, layer>>

\* the FeatureIterator goes out of scope (it has no Drop impl)
DropIter(it) ==
    /\ iters[it].live
    /\ iters' = [iters EXCEPT ![it] = IdleIter]
    /\ last' = Call("drop_iter", "ok", it, 0, NoGeometry, <<>>)
    /\ NoRead /\ UNCHANGED <<geoms, nHandles, destroyed, children, feats, layer, cursor>>

\* Feature::geometry(): binds the lazy geometry on the first call
FeatureGeometry(f) ==
    /\ feats[f].wrap = "live"
    /\ IF has_gdal_ptr(feats[f].lazy)
       THEN /\ feats' = feats
            /\ last' = Call("geometry", "ok", f, 0, NoGeometry, <<>>)
       ELSE LET r == set_c_geometry(feats[f].lazy, feats[f].geom)
            IN  /\ feats' = [feats EXCEPT ![f].lazy = r.self]
                /\ last' = Call("geometry", r.res, f, 0, NoGeometry, <<>>)
    /\ NoRead /\ UNCHANGED <<geoms, nHandles, destroyed, children, layer, cursor, iters>>

\* impl Drop for Feature: OGR_F_Destroy releases the native feature with its
\* geometry; then the lazy Geometry field is dropped
DropFeature(f) ==
    /\ feats[f].wrap = "live"
    /\ LET d == drop(feats[f].lazy)
       IN  /\ destroyed' = OGR_G_DestroyGeometry(destroyed, children,
                               <<feats[f].geom>> \o d.destroy)
           /\ last' = Call("drop_feature", d.res, f, 0, Destroyed(feats[f].lazy, d), <<>>)
    /\ feats' = [feats EXCEPT ![f].wrap = "dropped", ![f].released = @ + 1,
                              ![f].lazy = lazy_feature_geometry]
    /\ NoRead /\ UNCHANGED <<geoms, nHandles, children, layer, cursor, iters>>

\* create_feature(&mut self, geometry): OGR_F_Create, then into_c_geometry
\* (which consumes and drops geometry), then the attach with code rv_set and
\* the persist with code rv_create; when the attach fails the engine either
\* deleted the geometry (taken) or left it alone.  The native feature is not
\* released.
CreateFeature(g, rv_set, taken, rv_create) ==
    /\ LayerUnborrowed
    /\ geoms[g].st = "live"
    /\ nFeats < MaxFeats
    /\ LET c_feature == nFeats + 1
           r == into_c_geometry(Rec(g))
           d == drop(r.self)
           steps == IF r.res = "ok" THEN create_feature_steps(rv_set, rv_create)
                    ELSE [res |-> r.res, codes |-> <<>>]
           attached == Len(steps.codes) >= 1 /\ rv_set = OGRERR_NONE
           stored == Len(steps.codes) >= 2 /\ rv_create = OGRERR_NONE
           geom == IF attached THEN r.ret ELSE NULL
       IN  /\ taken => (Len(steps.codes) >= 1 /\ rv_set # OGRERR_NONE /\ r.ret # NULL)
           /\ Len(steps.codes) < 2 => rv_create = OGRERR_NONE
           /\ Len(steps.codes) < 1 => rv_set = OGRERR_NONE
           /\ geoms' = [geoms EXCEPT ![g] = Gone]
           /\ feats' = [feats EXCEPT ![c_feature] =
                          [origin |-> "create", geom |-> geom, wrap |-> "none",
                           lazy |-> lazy_feature_geometry, released |-> 0]]
           /\ destroyed' = OGR_G_DestroyGeometry(destroyed, children,
                               (IF taken THEN <<r.ret>> ELSE <<>>) \o d.destroy)
           /\ layer' = IF stored THEN Append(layer, geom) ELSE layer
           /\ last' = Call("create_feature", steps.res, g, c_feature,
                           Destroyed(r.self, d), steps.codes)
    /\ NoRead /\ UNCHANGED <<nHandles, children, cursor, iters>>

\* ------------------------------------------------- reading a Geometry
\* The engine's side of an exported text buffer: the export allocates it,
\* VSIFree / OGRFree give it back (freeing null does nothing)
Exported(h, buf, fn) == IF buf = NULL THEN h ELSE h \cup {[buf |-> buf, by |-> fn]}
Freed(h, calls) ==
    {b \in h : ~\E k \in 1..Len(calls) :
                  calls[k].fn \in {"VSIFree", "OGRFree"} /\ calls[k].arg = <<b.buf>>}
NewBuffer == Cardinality(heap) + 1
\* the point the engine writes for index k of a geometry read through a
\* handle whose content is not followed
NativePoint(k) == <<k + 1, k + 2, 0>>
Read(op, r, g, i) ==
    /\ out' = [calls |-> r.calls, val |-> r.val]
    /\ last' = Call(op, r.res, g, i, NoGeometry, <<>>)

\* json(&self): the engine exports a buffer for a geometry, null otherwise
Json(g, exported, segv) ==
    /\ geoms[g].st = "live"
    /\ LET c_json == IF exported THEN NewBuffer ELSE NULL
           r == json(Rec(g), c_json, segv)
           called == r.calls # <<>>
       IN  /\ exported => (called /\ c_geometry(Rec(g)) # NULL)
           /\ segv => (called /\ c_json = NULL)
           /\ heap' = Freed(Exported(heap, c_json, "OGR_G_ExportToJson"), r.calls)
           /\ Read("json", r, g, 0)
    /\ UNCHANGED <<geoms, nHandles, destroyed, children, feats, layer, cursor, iters,
                   filter, shape>>

\* wkt(&self): the engine returns OGRERR_NONE with a buffer, or another
\* code without one (always so for a null geometry)
Wkt(g, err) ==
    /\ geoms[g].st = "live"
    /\ LET called == ~c_geometry_panics(Rec(g))
           c_wkt == IF called /\ err = OGRERR_NONE THEN NewBuffer ELSE NULL
           r == wkt(Rec(g), err, c_wkt)
       IN  /\ ~called => err = OGRERR_NONE
           /\ (called /\ c_geometry(Rec(g)) = NULL) => err # OGRERR_NONE
           /\ heap' = Freed(Exported(heap, c_wkt, "OGR_G_ExportToWkt"), r.calls)
           /\ Read("wkt", r, g, 0)
    /\ UNCHANGED <<geoms, nHandles, destroyed, children, feats, layer, cursor, iters,
                   filter, shape>>

\* set_point_2d(&mut self, i, p) through a handle whose content is not
\* followed
SetPoint2D(g, i) ==
    /\ geoms[g].st = "live"
    /\ Read("set_point_2d", set_point_2d(Rec(g), i, NativePoint(i)), g, i)
    /\ UNCHANGED <<geoms, nHandles, destroyed, children, feats, layer, cursor, iters,
                   heap, filter, shape>>

\* get_point(&self, i): the engine writes the point, or nothing (index out
\* of range, geometry without points, null geometry)
GetPoint(g, i, wrote) ==
    /\ geoms[g].st = "live"
    /\ wrote => (~c_geometry_panics(Rec(g)) /\ c_geometry(Rec(g)) # NULL)
    /\ Read("get_point", get_point(Rec(g), i, IF wrote THEN NativePoint(i) ELSE <<>>), g, i)
    /\ UNCHANGED <<geoms, nHandles, destroyed, children, feats, layer, cursor, iters,
                   heap, filter, shape>>

\* get_point_vec(&self): the engine reports count points (0 for a null
\* geometry) and writes each of them
GetPointVec(g, count) ==
    /\ geoms[g].st = "live"
    /\ count > 0 => (~c_geometry_panics(Rec(g)) /\ c_geometry(Rec(g)) # NULL)
    /\ Read("get_point_vec",
            get_point_vec(Rec(g), count, [k \in 1..count |-> NativePoint(k - 1)]), g, count)
    /\ UNCHANGED <<geoms, nHandles, destroyed, children, feats, layer, cursor, iters,
                   heap, filter, shape>>

\* OGR_L_SetSpatialFilter restarts reading: every live iterator reads from
\* the start of the layer again
Restarted == [i \in IterIds |-> IF iters[i].live THEN [iters[i] EXCEPT !.steady = FALSE]
                                 ELSE iters[i]]

\* Layer::set_spatial_filter(&self, geometry): the engine keeps the filter
\* on the layer and restarts reading; skip are the positions of the features
\* the geometry leaves out (none for a null geometry, which clears the
\* filter)
SetSpatialFilter(g, skip) ==
    /\ geoms[g].st = "live"
    /\ skip \subseteq 1..Len(layer)
    /\ LET r == set_spatial_filter(Rec(g))
           h == IF r.res = "ok" THEN c_geometry(Rec(g)) ELSE NULL
       IN  /\ h = NULL => skip = {}
           /\ filter' = IF r.res = "ok" THEN [geom |-> h, skip |-> skip] ELSE filter
           /\ cursor' = IF r.res = "ok" THEN 0 ELSE cursor
           /\ iters' = IF r.res = "ok" THEN Restarted ELSE iters
           /\ Read("set_spatial_filter", r, g, 0)
    /\ UNCHANGED <<geoms, nHandles, destroyed, children, feats, layer, heap, shape>>

\* Layer::clear_spatial_filter(&self)
ClearSpatialFilter ==
    /\ filter' = NoFilter
    /\ cursor' = 0
    /\ iters' = Restarted
    /\ out' = [calls |-> <<NativeCall("OGR_L_SetSpatialFilter", <<NULL>>)>>, val |-> <<>>]
    /\ last' = Call("clear_spatial_filter", "ok", 0, 0, NoGeometry, <<>>)
    /\ UNCHANGED <<geoms, nHandles, destroyed, children, feats, layer, heap, shape>>

\* ------------------------------- Geometry values with followed content
\* the values bbox is called with: west and east, south and north
Longitudes == {Finite(-15), Finite(120), Infinity}
Latitudes == {Finite(0), Finite(7)}
\* the NUL byte of a text
Nul == "\\0"
Texts ==
    {<<"L", "I", "N", "E", "S", "T", "R", "I", "N", "G", " ", "(", "1", " ", "2", ",",
       " ", ".", "5", " ", "-", "3", ")">>,
     <<"L", "I", "N", "E", "S", "T", "R", "I", "N", "G", " ", "(", "4", " ", "4", ")">>,
     <<"P", "O", "L", "Y", "G", "O", "N", " ", "(", "(", "0", " ", "0", ")">>,
     <<"P", "O", "I", "N", "T", " ", "(", "n", "a", "n", " ", "0", ")">>,
     <<"A", Nul, "B">>}

\* CString::new(wkt.as_bytes()): an error for a text with an interior NUL
CString_new(text) == IF \E k \in 1..Len(text) : text[k] = Nul THEN "NulError" ELSE "ok"

\* the points the engine reads through handle h: its own, and for a
\* polygon those of its exterior ring, its first child part
PointsOf(h) ==
    IF shape[h].kind = "Polygon" /\ children[h] # <<>>
    THEN shape[children[h][1]].pts ELSE shape[h].pts

\* the content of the geometry self is bound to
ContentOf(self) ==
    IF c_geometry_panics(self) THEN NoShape
    ELSE [shape[c_geometry(self)] EXCEPT !.pts = PointsOf(c_geometry(self))]

\* from_wkt(text) with the engine's reader: CString::new(..).unwrap(), then
\* OGR_G_CreateFromWkt, assert_eq!(rv, OGRERR_NONE) and with_c_geometry(
\* c_geom, true).  The engine makes the geometry and, for a polygon, its
\* rings, which are its child parts.
MakeShape(op, text, src) ==
    IF CString_new(text) # "ok"
    THEN from_wkt(op, TRUE, OGRERR_NONE)
    ELSE \E words \in BOOLEAN : \E made \in {OGR_G_CreateFromWkt(text, words)} :
         LET c_geom == IF made.rv = OGRERR_NONE THEN nHandles + 1 ELSE NULL
             rings == Len(made.geom.parts)
             called == <<NativeCall("OGR_G_CreateFromWkt", <<text>>)>>
         IN  IF made.rv # OGRERR_NONE
             THEN /\ last' = Call(op, "assert_rv", 0, 0, NoGeometry, <<made.rv>>)
                  /\ out' = [calls |-> called, val |-> <<>>]
                  /\ UNCHANGED <<geoms, nHandles, destroyed, children, feats, layer, cursor,
                                 iters, heap, filter, shape>>
             ELSE /\ nGeoms < MaxGeoms
                  /\ nHandles + 1 + rings <= MaxHandles
                  /\ geoms' = [geoms EXCEPT ![nGeoms + 1] = Live(with_c_geometry(c_geom, TRUE))]
                  /\ nHandles' = nHandles + 1 + rings
                  /\ children' = [children EXCEPT ![c_geom] = [k \in 1..rings |-> c_geom + k]]
                  /\ shape' = [h \in Handles |->
                                 IF h = c_geom THEN Shape(made.geom, src, <<>>)
                                 ELSE IF h \in (c_geom + 1)..(c_geom + rings)
                                 THEN Shape(Content("LinearRing", made.geom.parts[h - c_geom], <<>>),
                                            src, <<h - c_geom - 1>>)
                                 ELSE shape[h]]
                  /\ last' = Call(op, "ok", nGeoms + 1, 0, NoGeometry, <<made.rv>>)
                  /\ out' = [calls |-> called, val |-> <<>>]
                  /\ UNCHANGED <<destroyed, feats, layer, cursor, iters, heap, filter>>

\* bbox(w, s, e, n)
ShapeBbox(w, s, e, n) ==
    \E text \in {bbox_wkt(w, s, e, n)} : MakeShape("bbox", text, <<w, s, e, n>>)

\* from_wkt(text)
ShapeFromWkt(text) == MakeShape("from_wkt", text, <<>>)

\* empty(wkbLineString): a line string without points
ShapeEmpty ==
    /\ nGeoms < MaxGeoms
    /\ nHandles < MaxHandles
    /\ geoms' = [geoms EXCEPT ![nGeoms + 1] = Live(with_c_geometry(nHandles + 1, TRUE))]
    /\ nHandles' = nHandles + 1
    /\ shape' = [shape EXCEPT ![nHandles + 1] = Shape(Content("LineString", <<>>, <<>>), <<>>, <<>>)]
    /\ out' = NoOut
    /\ last' = Call("empty", "ok", nGeoms + 1, 0, NoGeometry, <<>>)
    /\ UNCHANGED <<destroyed, children, feats, layer, cursor, iters, heap, filter>>

\* get_point_vec(&self) on followed content (a null geometry has no point)
ShapeGetPointVec(g) ==
    /\ geoms[g].st = "live"
    /\ LET geom == ContentOf(Rec(g))
           count == OGR_G_GetPointCount(geom)
       IN  Read("get_point_vec",
                get_point_vec(Rec(g), count, [k \in 1..count |-> OGR_G_GetPoint(geom, k - 1)]),
                g, count)
    /\ UNCHANGED <<geoms, nHandles, destroyed, children, feats, layer, cursor, iters,
                   heap, filter, shape>>

\* get_point(&self, i) on followed content
ShapeGetPoint(g, i) ==
    /\ geoms[g].st = "live"
    /\ Read("get_point", get_point(Rec(g), i, OGR_G_GetPoint(ContentOf(Rec(g)), i)), g, i)
    /\ UNCHANGED <<geoms, nHandles, destroyed, children, feats, layer, cursor, iters,
                   heap, filter, shape>>

\* set_point_2d(&mut self, i, (x, y)) on followed content; the engine
\* ignores the call for null.  A geometry that was set, and the polygon
\* whose ring it is, no longer count as made by bbox (src).
ShapeSetPoint2D(g, i, x, y) ==
    /\ geoms[g].st = "live"
    /\ LET r == set_point_2d(Rec(g), i, <<x, y>>)
           h == IF r.res = "ok" THEN c_geometry(Rec(g)) ELSE NULL
       IN  /\ shape' = IF h = NULL THEN shape
                       ELSE [k \in Handles |->
                               IF k = h
                               THEN Shape(OGR_G_SetPoint_2D(shape[h], i, x, y), <<>>, shape[h].path)
                               ELSE IF \E j \in 1..Len(children[k]) : children[k][j] = h
                               THEN [shape[k] EXCEPT !.src = <<>>]
                               ELSE shape[k]]
           /\ Read("set_point_2d", r, g, i)
    /\ UNCHANGED <<geoms, nHandles, destroyed, children, feats, layer, cursor, iters,
                   heap, filter>>

\* ------------------------------------------------------------ behaviour
\* Geometry values and the writing side of the Layer
Next ==
    \/ \E known \in BOOLEAN : Empty(known)
    \/ \E nul \in BOOLEAN, rv \in NativeCodes : FromWkt(nul, rv)
    \/ \E rv \in NativeCodes : Bbox(rv)
    \/ LazyFeatureGeometry
    \/ \E g \in GeomIds, c \in 1..MaxHandles : SetCGeometry(g, c)
    \/ \E g \in GeomIds, hull \in BOOLEAN : ConvexHull(g, hull)
    \/ \E g \in GeomIds, n \in 0..MaxIndex : GetGeometry(g, n)
    \/ \E g \in GeomIds : IntoCGeometry(g)
    \/ \E p \in GeomIds, s \in GeomIds, rv \in NativeCodes, taken \in BOOLEAN :
           AddGeometry(p, s, rv, taken)
    \/ \E g \in GeomIds : Drop(g)
    \/ \E g \in GeomIds, rv_set \in NativeCodes, taken \in BOOLEAN, rv_create \in NativeCodes :
           CreateFeature(g, rv_set, taken, rv_create)

Spec == InitEmpty /\ [][Next]_vars

\* The safe public interface alone: no caller hands a raw handle in or out
NextSafe ==
    \/ \E known \in BOOLEAN : Empty(known)
    \/ \E nul \in BOOLEAN, rv \in NativeCodes : FromWkt(nul, rv)
    \/ \E rv \in NativeCodes : Bbox(rv)
    \/ \E g \in GeomIds, hull \in BOOLEAN : ConvexHull(g, hull)
    \/ \E p \in GeomIds, s \in GeomIds, rv \in NativeCodes, taken \in BOOLEAN :
           AddGeometry(p, s, rv, taken)
    \/ \E g \in GeomIds : Drop(g)
    \/ \E g \in GeomIds, rv_set \in NativeCodes, taken \in BOOLEAN, rv_create \in NativeCodes :
           CreateFeature(g, rv_set, taken, rv_create)

SpecSafe == InitEmpty /\ [][NextSafe]_vars

\* Geometry values that are made, read, handed over and dropped
NextRead ==
    \/ \E known \in BOOLEAN : Empty(known) /\ nGeoms < MaxReadGeoms
    \/ LazyFeatureGeometry /\ nGeoms < MaxReadGeoms
    \/ \E g \in GeomIds, c \in 1..MaxHandles : SetCGeometry(g, c)
    \/ \E g \in GeomIds, hull \in BOOLEAN : ConvexHull(g, hull) /\ nGeoms < MaxReadGeoms
    \/ \E g \in GeomIds, n \in 0..MaxIndex : GetGeometry(g, n) /\ nGeoms < MaxReadGeoms
    \/ \E g \in GeomIds : IntoCGeometry(g)
    \/ \E p \in GeomIds, s \in GeomIds, rv \in NativeCodes, taken \in BOOLEAN :
           AddGeometry(p, s, rv, taken)
    \/ \E g \in GeomIds : Drop(g)
    \/ \E g \in GeomIds, exported \in BOOLEAN, segv \in BOOLEAN : Json(g, exported, segv)
    \/ \E g \in GeomIds, err \in NativeCodes : Wkt(g, err)
    \/ \E g \in GeomIds, i \in 0..MaxIndex : SetPoint2D(g, i)
    \/ \E g \in GeomIds, i \in 0..MaxIndex, wrote \in BOOLEAN : GetPoint(g, i, wrote)
    \/ \E g \in GeomIds, count \in 0..MaxCount : GetPointVec(g, count)
    \/ \E g \in GeomIds, skip \in SUBSET (1..Len(layer)) : SetSpatialFilter(g, skip)
    \/ ClearSpatialFilter

SpecRead == InitEmpty /\ [][NextRead]_vars

\* One Geometry made from text or empty, the wrappers of its parts, and
\* their points read and set
NextPoints ==
    \/ /\ nGeoms = 0
       /\ \E w \in Longitudes, s \in Latitudes, e \in Longitudes, n \in Latitudes :
              ShapeBbox(w, s, e, n)
    \/ nGeoms = 0 /\ \E text \in Texts : ShapeFromWkt(text)
    \/ nGeoms = 0 /\ ShapeEmpty
    \/ \E g \in GeomIds, n \in 0..MaxIndex : GetGeometry(g, n)
    \/ \E g \in GeomIds : ShapeGetPointVec(g)
    \/ \E g \in GeomIds, i \in 0..MaxCount : ShapeGetPoint(g, i)
    \/ \E g \in GeomIds, i \in 0..MaxCount : ShapeSetPoint2D(g, i, Finite(7), Zero)

SpecPoints == InitEmpty /\ [][NextPoints]_vars

\* The reading side of a Layer that holds its features from the start:
\* iterators and features, and the spatial filter set with one Geometry
NextLayer ==
    \/ \E it \in IterIds : Features(it)
    \/ \E it \in IterIds : IterNext(it)
    \/ \E it \in IterIds : DropIter(it)
    \/ \E f \in FeatIds : FeatureGeometry(f)
    \/ \E f \in FeatIds : DropFeature(f)
    \/ nGeoms = 0 /\ \E known \in BOOLEAN : Empty(known)
    \/ \E g \in GeomIds, skip \in SUBSET (1..Len(layer)) : SetSpatialFilter(g, skip)
    \/ ClearSpatialFilter

SpecLayer == Init /\ [][NextLayer]_vars

\* ================================================================ claims
RealHandles == 1..(MaxHandles + MaxFeats)
Range(s) == {s[i] : i \in 1..Len(s)}

\* C1: when a Geometry is destroyed with its ownership flag true, its drop
\* passes exactly its handle to the native destroy operation, once, and the
\* engine releases that geometry once; when the flag is false (alias, lazy
\* geometry bound or unbound, donor after a transfer) its drop makes no
\* native destroy call, and a plain drop leaves every release count as it was.
C1_DropReleasesIffOwned ==
    [][\A g \in GeomIds :
          (geoms[g].st = "live" /\ geoms'[g].st = "dropped") =>
              /\ last'.gone.ref = geoms[g].ref
              /\ IF last'.gone.owned
                 THEN /\ geoms[g].owned
                      /\ geoms[g].ref # None
                      /\ last'.gone.destroy = <<geoms[g].ref>>
                      /\ destroyed'[geoms[g].ref] = destroyed[geoms[g].ref] + 1
                 ELSE /\ last'.gone.destroy = <<>>
                      /\ (last'.op = "drop" => destroyed' = destroyed)]_vars

\* an owned geometry holding a child part was dropped last and released
\* once, after a non-owned wrapper of that part and the part's donor were
\* destroyed without releasing it
C1_Witness ==
    /\ last.op = "drop"
    /\ last.gone.owned
    /\ last.gone.ref \in RealHandles
    /\ last.gone.destroy = <<last.gone.ref>>
    /\ destroyed[last.gone.ref] = 1
    /\ Len(children[last.gone.ref]) = 1
    /\ destroyed[children[last.gone.ref][1]] = 1
    /\ \A g \in GeomIds : geoms[g].st = "dropped"

\* C2: no native geometry is released more than once, and whenever a donor's
\* handle has been handed to the native add or attach operation, or returned
\* by into_c_geometry, the donor's ownership flag is false when the donor is
\* destroyed, so its drop releases nothing.
C2_NoDoubleDestroy ==
    /\ \A h \in RealHandles : destroyed[h] <= 1
    /\ (last.op \in {"add_geometry", "create_feature"} /\ last.codes # <<>>) =>
           (~last.gone.owned /\ last.gone.destroy = <<>>)
    /\ (last.op = "into_c_geometry" /\ last.res = "ok") =>
           (~last.gone.owned /\ last.gone.destroy = <<>>)

\* a parent was released together with the part a donor handed to it: each
\* of the two geometries was released exactly once
C2_Witness ==
    \E c \in 1..MaxHandles :
        /\ last.op = "drop"
        /\ last.gone.ref \in 1..MaxHandles
        /\ children[last.gone.ref] = <<c>>
        /\ destroyed[last.gone.ref] = 1
        /\ destroyed[c] = 1

\* C3 (as claimed): once every Geometry value is gone, every native geometry
\* that was created as owned has been released exactly once, whatever the
\* native add / attach / persist operations returned.
C3_ReleasedExactlyOnceByEnd ==
    (nGeoms > 0 /\ LiveGeoms = {}) =>
        \A h \in 1..MaxHandles : h <= nHandles => destroyed[h] = 1

\* C4: set_c_geometry on a bound Geometry fails its assertion and changes no
\* Geometry; the handle of a live Geometry only ever changes from unbound to
\* bound, and only in set_c_geometry.
C4_BindOnce ==
    [][/\ (last'.op = "set_c_geometry" /\ has_gdal_ptr(Rec(last'.a))) =>
              (last'.res = "assert_unbound" /\ geoms' = geoms)
       /\ \A g \in GeomIds :
              (geoms[g].st = "live" /\ geoms'[g].st = "live" /\ geoms'[g].ref # geoms[g].ref) =>
                  /\ geoms[g].ref = None
                  /\ geoms'[g].ref # None
                  /\ last'.op = "set_c_geometry"]_vars

\* a lazy geometry bound earlier refused a second handle and kept the first
C4_Witness ==
    /\ last.op = "set_c_geometry"
    /\ last.res = "assert_unbound"
    /\ ~geoms[last.a].owned
    /\ geoms[last.a].ref \in RealHandles
    /\ geoms[last.a].ref # last.b

\* C5: add_geometry with a donor whose ownership flag is false fails the
\* owned assertion, never invokes the native add and leaves every list of
\* child parts unchanged.
C5_AddNonOwnedRejected ==
    [][(last'.op = "add_geometry" /\ ~geoms[last'.b].owned) =>
           /\ last'.res = "assert_owned"
           /\ last'.codes = <<>>
           /\ children' = children]_vars

\* a non-owned donor with a real handle was refused by a parent with a real
\* handle
C5_Witness ==
    /\ last.op = "add_geometry"
    /\ last.res = "assert_owned"
    /\ geoms[last.a].ref \in RealHandles
    /\ last.gone.ref \in RealHandles
    /\ last.gone.ref # geoms[last.a].ref

\* C6: no native handle is a child part twice (of two parents or of one);
\* after a successful add_geometry the donor's flag is false; and every
\* owning operation (add_geometry, into_c_geometry, create_feature) on a
\* Geometry whose flag is false fails the owned assertion without handing
\* the handle to a parent or to the layer.
NoSharedChild ==
    \A p1 \in Handles, p2 \in Handles :
        \A i \in 1..Len(children[p1]), j \in 1..Len(children[p2]) :
            children[p1][i] = children[p2][j] => (p1 = p2 /\ i = j)

C6_NoReuseOfDonor ==
    /\ [](/\ NoSharedChild
          /\ (last.op = "add_geometry" /\ last.res = "ok") =>
                 (~last.gone.owned /\ geoms[last.b].st = "dropped"))
    /\ [][/\ (last'.op = "add_geometry" /\ ~geoms[last'.b].owned) =>
                 (last'.res = "assert_owned" /\ children' = children)
          /\ (last'.op \in {"into_c_geometry", "create_feature"} /\ ~geoms[last'.a].owned) =>
                 (last'.res = "assert_owned" /\ children' = children /\ layer' = layer)]_vars

\* a wrapper of a handle that is already a child part of a parent was
\* refused as a donor
C6_Witness ==
    /\ last.op = "add_geometry"
    /\ last.res = "assert_owned"
    /\ \E p \in RealHandles : last.gone.ref \in Range(children[p])

\* C7 (as claimed): an iterator that has returned None has yielded exactly
\* the N features of its layer.
C7_YieldsAllN ==
    \A it \in IterIds :
        (iters[it].live /\ iters[it].none) => Len(iters[it].got) = Len(layer)

\* C7 (amended): next() yields the feature at the first position after the
\* shared cursor that the spatial filter lets through, and None when there
\* is none.  While the layer has had no filter and no filter call since the
\* iterator was obtained, it yields positions from the cursor on, in order,
\* never more than N; when it returns None, its own yields, those of other
\* iterators since it was obtained and the cursor position it started from
\* add up to N (so exactly N when it started at position 0 and no other
\* iterator advanced); and after None it yields no further feature.
C7_YieldsRestThenNone ==
    /\ [](\A it \in IterIds : (iters[it].live /\ iters[it].steady) =>
            /\ iters[it].base + Len(iters[it].got) + iters[it].foreign <= Len(layer)
            /\ iters[it].none =>
                   iters[it].base + Len(iters[it].got) + iters[it].foreign = Len(layer)
            /\ \A k \in 1..Len(iters[it].got) :
                   /\ iters[it].got[k] \in (iters[it].base + 1)..Len(layer)
                   /\ k > 1 => iters[it].got[k - 1] < iters[it].got[k])
    /\ [][\A it \in IterIds :
            (iters[it].live /\ iters[it].none /\ iters[it].steady
             /\ last'.op = "next" /\ last'.a = it) =>
                (last'.res = "none" /\ iters'[it].got = iters[it].got)]_vars
    /\ [][last'.op = "next" =>
            LET rest == {p \in (cursor + 1)..Len(layer) : p \notin filter.skip}
            IN  IF rest = {} THEN last'.res = "none"
                ELSE /\ last'.res = "some"
                     /\ last'.b \in rest
                     /\ \A p \in rest : last'.b <= p
                     /\ iters'[last'.a].got = Append(iters[last'.a].got, last'.b)]_vars

\* an iterator obtained at position 0 and advanced alone, on a layer of two
\* features without a filter, yielded both and then None
C7_Witness ==
    \E it \in IterIds :
        /\ iters[it].live /\ iters[it].none /\ iters[it].steady
        /\ iters[it].base = 0 /\ iters[it].foreign = 0
        /\ Len(layer) = 2
        /\ iters[it].got = <<1, 2>>
        /\ last.op = "next" /\ last.a = it /\ last.res = "none"

\* C8 (as claimed): Layer::features() leaves the native cursor at the start
\* of the layer.
C8_FeaturesResetsCursor == last.op = "features" => cursor = 0

\* C9 (as claimed): two iterators over the layer share its features: no
\* position of the layer is yielded to both, and once both have returned
\* None they have yielded the N features of the layer between them.
C9_TwoYieldAllN ==
    \A i \in IterIds, j \in IterIds :
        (i # j /\ iters[i].live /\ iters[j].live) =>
            /\ Range(iters[i].got) \cap Range(iters[j].got) = {}
            /\ (iters[i].none /\ iters[j].none) =>
                   Len(iters[i].got) + Len(iters[j].got) = Len(layer)

\* C10: create_feature with an owned geometry panics whenever the attach or
\* the persist step returns a code other than OGRERR_NONE; after a failed
\* attach the persist step is not invoked and the layer is unchanged; when
\* both return OGRERR_NONE it succeeds and the layer gains exactly one
\* feature, which carries the geometry's handle.
C10_CreateFeature ==
    [][(/\ last'.op = "create_feature"
        /\ geoms[last'.a].owned
        /\ geoms[last'.a].ref # None) =>
           LET h == geoms[last'.a].ref
               codes == last'.codes
           IN  /\ Len(codes) >= 1
               /\ codes[1] # OGRERR_NONE =>
                      (last'.res = "assert_set" /\ Len(codes) = 1 /\ layer' = layer)
               /\ codes[1] = OGRERR_NONE => Len(codes) = 2
               /\ (Len(codes) = 2 /\ codes[2] # OGRERR_NONE) => last'.res = "assert_create"
               /\ codes = <<OGRERR_NONE, OGRERR_NONE>> =>
                      /\ last'.res = "ok"
                      /\ layer' = Append(layer, h)
                      /\ feats'[last'.b].geom = h]_vars

\* create_feature succeeded on a layer that had features: the layer's new
\* last feature carries the handle of the geometry passed in
C10_Witness ==
    /\ last.op = "create_feature"
    /\ last.res = "ok"
    /\ last.codes = <<OGRERR_NONE, OGRERR_NONE>>
    /\ Len(layer) >= 2
    /\ layer[Len(layer)] = last.gone.ref
    /\ last.gone.ref \in 1..MaxHandles
    /\ feats[last.b].geom = last.gone.ref

\* C11: into_c_geometry on a Geometry whose ownership flag is false fails
\* the owned assertion; create_feature with such a geometry (an alias of a
\* child part, a lazy feature geometry) aborts before the attach and the
\* persist call, the layer keeps its features, and the geometry's handle is
\* neither handed to the feature or a parent nor released.
C11_NonOwnedTransferAborts ==
    [][(last'.op \in {"into_c_geometry", "create_feature"} /\ ~geoms[last'.a].owned) =>
           /\ last'.res = "assert_owned"
           /\ last'.codes = <<>>
           /\ layer' = layer
           /\ children' = children
           /\ destroyed' = destroyed
           /\ last'.gone.destroy = <<>>
           /\ last'.op = "create_feature" => feats'[last'.b].geom = NULL]_vars

\* create_feature was refused for an alias of a child part of a parent: the
\* layer is still empty and the part is still unreleased
C11_Witness ==
    /\ last.op = "create_feature"
    /\ last.res = "assert_owned"
    /\ \E p \in RealHandles : last.gone.ref \in Range(children[p])
    /\ destroyed[last.gone.ref] = 0
    /\ layer = <<>>

\* C13 (as claimed): convex_hull() returns a new Geometry whose ownership
\* flag is true and whose handle differs from self's, and leaves self, every
\* list of child parts and every release count as they were.
C13_HullIsNewOwned ==
    [][(last'.op = "convex_hull" /\ last'.res = "ok") =>
           /\ geoms'[last'.b].owned
           /\ geoms'[last'.b].ref # geoms[last'.a].ref
           /\ geoms'[last'.a] = geoms[last'.a]
           /\ children' = children
           /\ destroyed' = destroyed]_vars

\* C12: a json() that returns has freed the buffer the engine exported
\* exactly once, with VSIFree, after copying it; a wkt() that returns has
\* freed its buffer exactly once, with OGRFree, after copying it; a call
\* that aborts frees nothing; and no exported buffer stays allocated.
FreesOf(buf) ==
    {k \in 1..Len(out.calls) :
        out.calls[k].fn \in {"VSIFree", "OGRFree"} /\ out.calls[k].arg = <<buf>>}
FreedOnceWith(fn, buf) ==
    /\ Cardinality(FreesOf(buf)) = 1
    /\ \A k \in FreesOf(buf) :
           /\ out.calls[k].fn = fn
           /\ \E c \in 1..(k - 1) : out.calls[c] = NativeCall("_string", <<buf>>)
C12_ExportBuffersFreed ==
    /\ heap = {}
    /\ (last.op = "json" /\ last.res = "ok" /\ out.val[2] # NULL) =>
           FreedOnceWith("VSIFree", out.val[2])
    /\ (last.op = "wkt" /\ last.res = "ok") =>
           (out.val[2] # NULL /\ FreedOnceWith("OGRFree", out.val[2]))
    /\ (last.op \in {"json", "wkt"} /\ last.res # "ok") =>
           \A k \in 1..Len(out.calls) : out.calls[k].fn \notin {"VSIFree", "OGRFree"}

\* wkt() returned the text of a geometry with a real handle: its buffer
\* was exported, copied, then freed with OGRFree
C12_Witness ==
    /\ last.op = "wkt"
    /\ last.res = "ok"
    /\ geoms[last.a].ref \in RealHandles
    /\ out.calls = <<NativeCall("OGR_G_ExportToWkt", <<geoms[last.a].ref>>),
                     NativeCall("_string", <<out.val[2]>>),
                     NativeCall("OGRFree", <<out.val[2]>>)>>
    /\ heap = {}

\* C19: the ownership flag of a Geometry never changes from false to true;
\* it changes from true to false only for the donor of add_geometry and
\* the subject of into_c_geometry; json, wkt, get_point, get_point_vec,
\* set_point_2d, convex_hull, _get_geometry, set_c_geometry and
\* set_spatial_filter leave every existing Geometry alive with its flag.
FlagKeepers ==
    {"json", "wkt", "get_point", "get_point_vec", "set_point_2d", "convex_hull",
     "_get_geometry", "set_c_geometry", "set_spatial_filter"}
C19_FlagMonotone ==
    [][\A g \in GeomIds :
          geoms[g].st = "live" =>
              LET after == IF geoms'[g].st = "live" THEN geoms'[g].owned
                           ELSE last'.gone.owned
              IN  /\ ~geoms[g].owned => ~after
                  /\ (geoms[g].owned /\ ~after) =>
                         \/ last'.op = "add_geometry" /\ last'.b = g
                         \/ last'.op = "into_c_geometry" /\ last'.a = g
                  /\ last'.op \in FlagKeepers =>
                         (geoms'[g].st = "live" /\ geoms'[g].owned = geoms[g].owned)]_vars

\* add_geometry took an owned donor, whose flag was false when it was
\* dropped, while the parent is still an owner
C19_Witness ==
    /\ last.op = "add_geometry"
    /\ last.res = "ok"
    /\ ~last.gone.owned
    /\ last.gone.ref \in RealHandles
    /\ geoms[last.a].owned
    /\ children[geoms[last.a].ref] = <<last.gone.ref>>

\* C20: an operation that needs the handle of a Geometry whose handle is
\* unbound aborts without any native call and changes no native object;
\* no native call ever receives an absent handle; dropping an unbound
\* Geometry returns normally and releases nothing.
HandleUsers ==
    {"json", "wkt", "get_point", "get_point_vec", "set_point_2d", "convex_hull",
     "_get_geometry", "add_geometry", "set_spatial_filter"}
C20_UnboundAborts ==
    [][/\ (last'.op \in HandleUsers /\ geoms[last'.a].ref = None) =>
              /\ last'.res \in {"unwrap_none", "assert_owned"}
              /\ out'.calls = <<>>
              /\ last'.codes = <<>>
              /\ UNCHANGED <<nHandles, destroyed, children, heap, filter, cursor>>
              /\ \A g \in GeomIds : geoms[g].st = "free" => geoms'[g].st = "free"
       /\ \A k \in 1..Len(out'.calls) : None \notin Range(out'.calls[k].arg)
       /\ (last'.op = "drop" /\ geoms[last'.a].ref = None) =>
              (last'.res = "ok" /\ last'.gone.destroy = <<>> /\ destroyed' = destroyed)]_vars

\* json() on a lazy feature geometry that was never bound aborted in
\* c_geometry()
C20_Witness ==
    /\ last.op = "json"
    /\ last.res = "unwrap_none"
    /\ geoms[last.a].st = "live"
    /\ geoms[last.a].ref = None
    /\ ~geoms[last.a].owned
    /\ out.calls = <<>>

\* The five corners of bbox(w, s, e, n), src being <<w, s, e, n>>
Corners(src) ==
    LET w == src[1]
        s == src[2]
        e == src[3]
        n == src[4]
    IN  <<<<w, n, Zero>>, <<e, n, Zero>>, <<e, s, Zero>>, <<w, s, Zero>>, <<w, n, Zero>>>>

\* the content of the geometry the last call read through its wrapper
ReadShape == ContentOf(Rec(last.a))

C15_PointVecIsEveryPoint ==
    (last.op = "get_point_vec" /\ last.res = "ok") =>
        LET self == Rec(last.a)
            count == OGR_G_GetPointCount(ReadShape)
        IN  /\ Len(out.val) = count
            /\ Len(out.calls) = count + 1
            /\ out.calls[1] = NativeCall("OGR_G_GetPointCount", <<c_geometry(self)>>)
            /\ \A k \in 1..count :
                   /\ out.calls[k + 1] = NativeCall("OGR_G_GetPoint", <<c_geometry(self), k - 1>>)
                   /\ out.val[k] = get_point(self, k - 1, OGR_G_GetPoint(ReadShape, k - 1)).val
            /\ count = 0 => (out.val = <<>> /\ Len(out.calls) = 1)

\* the two points of LINESTRING (1 2, .5 -3) were read in order
C15_Witness ==
    /\ last.op = "get_point_vec"
    /\ ReadShape.kind = "LineString"
    /\ out.val = <<<<Finite(10), Finite(20), Zero>>, <<Finite(5), Finite(-30), Zero>>>>
    /\ Len(out.calls) = 3

\* C16 (as claimed): every native feature that create_feature obtained from
\* OGR_F_Create has been released exactly once when create_feature is over.
C16_CreatedFeatureReleased ==
    \A f \in FeatIds : feats[f].origin = "create" => feats[f].released = 1

\* C17 (as claimed): every Geometry whose ownership flag is true holds a
\* non-null handle, and the native destroy operation never receives null.
C17_OwnedIsNonNull ==
    /\ \A g \in GeomIds : (geoms[g].st = "live" /\ geoms[g].owned) => geoms[g].ref # NULL
    /\ destroyed[NULL] = 0

\* C18: a live Geometry whose ownership flag is true has a bound handle
\* (the lazy geometry of a feature included); set_c_geometry on an owned
\* Geometry fails an assertion and changes nothing; and no drop fails to
\* unwrap the handle.
C18_OwnedIsBound ==
    /\ [](/\ \A g \in GeomIds :
                (geoms[g].st = "live" /\ geoms[g].owned) => has_gdal_ptr(Rec(g))
          /\ \A f \in FeatIds : feats[f].lazy.owned => has_gdal_ptr(feats[f].lazy)
          /\ last.gone.owned => last.gone.ref # None
          /\ last.op = "drop" => last.res = "ok")
    /\ [][(last'.op = "set_c_geometry" /\ geoms[last'.a].owned) =>
              (last'.res \in {"assert_unbound", "assert_not_owned"} /\ geoms' = geoms)]_vars

\* an unbound lazy geometry was dropped without a release or a panic while
\* an owned Geometry with a real handle lives on
C18_Witness ==
    /\ last.op = "drop"
    /\ last.res = "ok"
    /\ last.gone.ref = None
    /\ last.gone.destroy = <<>>
    /\ \E g \in GeomIds :
           geoms[g].st = "live" /\ geoms[g].owned /\ geoms[g].ref \in RealHandles

====
